---- MODULE Spec2Model ----
(***************************************************************************)
(* Model of test-agent-config.py: the AgentConfigTester class (load, the   *)
(* four section checks, the summary, the driver run_all_checks) and the    *)
(* entry point main().                                                     *)
(*                                                                         *)
(* A parsed YAML value is modelled by its Python kind and by the answers   *)
(* it gives to the lookups the code performs on it:                        *)
(*   "null" None            no `in`, no len(), no .get, no [key]           *)
(*   "num"  int/float/bool  no `in`, no len(), no .get, no [key]           *)
(*   "str"  string          `in` is substring, len() works, [key] raises   *)
(*   "list" sequence        `in` is membership, len() works, [key] raises  *)
(*   "map"  mapping         `in`, len(), .get and [key] all work           *)
(* "absent" marks a key that the enclosing mapping does not have.          *)
(***************************************************************************)
EXTENDS Integers, Sequences, FiniteSets, TLC

\* Longest AllowedValues list a parameter of an input document declares.
MaxAllowedLen == 3

\* len(checks) in run_all_checks.
NumChecks == 5

Kinds == {"null", "num", "str", "list", "map"}

\* `x in v` raises TypeError unless v is a container.
SupportsIn(kind) == kind \in {"str", "list", "map"}

\* len(v) raises TypeError unless v is sized.
SupportsLen(kind) == kind \in {"str", "list", "map"}

\* v.get(...) raises AttributeError unless v is a mapping.
SupportsGet(kind) == kind = "map"

\* v['key'] raises TypeError on a string or a list, and on None or a number.
SupportsIndex(kind) == kind = "map"

SectionKeys == {"Parameters", "Resources", "Outputs"}

AllowedVocab == {"dev", "test", "prod"}

RequiredParams == <<"AgentName", "FoundationModel", "Environment">>

required_checks ==
  [n \in {"AgentName", "FoundationModel", "Environment"} |->
     IF n = "Environment"
     THEN [Type |-> "String", hasAllowed |-> TRUE,
           AllowedValues |-> <<"dev", "test", "prod">>]
     ELSE [Type |-> "String", hasAllowed |-> FALSE, AllowedValues |-> <<>>]]

expected_resources ==
  <<"BedrockAgentRole", "BedrockAgent", "BedrockAgentAlias", "AgentLogGroup">>

expected_outputs ==
  <<"AgentId", "AgentAliasId", "AgentRoleArn", "AgentAliasArn", "FoundationModelUsed">>

Range(s) == {s[k] : k \in 1..Len(s)}

(***************************************************************************)
(* The documents a template file can parse to.                             *)
(***************************************************************************)

\* One entry of the Parameters mapping.
ParamEntry(kind, ty, has, allowed) ==
  [kind |-> kind, Type |-> ty, hasAllowed |-> has, AllowedValues |-> allowed]

AbsentEntry == ParamEntry("absent", "unset", FALSE, <<>>)

AllowedValuesChoices == UNION {[1..n -> AllowedVocab] : n \in 0..MaxAllowedLen}

\* AgentName and FoundationModel: missing, null, or a mapping.
PlainEntries ==
  { AbsentEntry,
    ParamEntry("null", "unset", FALSE, <<>>),
    ParamEntry("map", "String", FALSE, <<>>),
    ParamEntry("map", "Number", TRUE, <<"dev", "test", "prod">>) }

\* Environment: missing, not a mapping, or a mapping with any Type and any
\* AllowedValues list over the vocabulary (or none).
EnvironmentEntries ==
  { AbsentEntry,
    ParamEntry("null", "unset", FALSE, <<>>),
    ParamEntry("str", "unset", FALSE, <<>>) }
  \cup { ParamEntry("map", ty, FALSE, <<>>) : ty \in {"String", "Number", "unset"} }
  \cup { ParamEntry("map", ty, TRUE, a) :
           ty \in {"String", "Number", "unset"}, a \in AllowedValuesChoices }

ParamNames == Range(RequiredParams)

ParamSection(kind, names, entries) ==
  [kind |-> kind, names |-> names, entries |-> entries]

NoEntries == [n \in ParamNames |-> AbsentEntry]

AbsentParams == ParamSection("absent", {}, NoEntries)

ParamMap(an, fm, env) ==
  LET e == [n \in ParamNames |->
              IF n = "AgentName" THEN an
              ELSE IF n = "FoundationModel" THEN fm ELSE env]
  IN  ParamSection("map", {n \in ParamNames : e[n].kind # "absent"}, e)

EmptyParams == ParamMap(AbsentEntry, AbsentEntry, AbsentEntry)

FullParams ==
  ParamMap(ParamEntry("map", "String", FALSE, <<>>),
           ParamEntry("map", "String", FALSE, <<>>),
           ParamEntry("map", "String", TRUE, <<"dev", "test", "prod">>))

\* A Parameters value that is not a mapping; `names` are the required names
\* it contains (as substrings of a string, as elements of a list).
NonMapParams ==
  { ParamSection("null", {}, NoEntries), ParamSection("num", {}, NoEntries) }
  \cup { ParamSection(k, ns, NoEntries) :
           k \in {"str", "list"}, ns \in {{}, {"Environment"}} }

ParamSections ==
  {AbsentParams} \cup NonMapParams
  \cup { ParamMap(an, fm, env) :
           an \in PlainEntries, fm \in PlainEntries, env \in EnvironmentEntries }

BasicParamSections == {AbsentParams, EmptyParams, FullParams}

\* The BedrockAgent entry: the kinds of Properties, of Instruction and of
\* PromptOverrideConfiguration, whether 'PromptConfigurations' is `in` the
\* override block, and the kind of PromptConfigurations.
AgentEntry(props, instr, poc, hasPC, pc) ==
  [Properties |-> props, Instruction |-> instr,
   PromptOverrideConfiguration |-> poc, hasPromptConfigurations |-> hasPC,
   PromptConfigurations |-> pc]

NoAgent == AgentEntry("absent", "absent", "absent", FALSE, "absent")

OverrideChoices ==
  { <<"absent", FALSE, "absent">>, <<"null", FALSE, "absent">>,
    <<"str", FALSE, "absent">>, <<"str", TRUE, "absent">>,
    <<"map", FALSE, "absent">>, <<"map", TRUE, "list">>,
    <<"map", TRUE, "num">> }

AgentEntries ==
  { NoAgent, AgentEntry("null", "absent", "absent", FALSE, "absent") }
  \cup { AgentEntry("map", instr, o[1], o[2], o[3]) :
           instr \in {"absent", "str", "num"}, o \in OverrideChoices }

ResourceNames == Range(expected_resources)

ResSection(kind, names, entryKind, agent) ==
  [kind |-> kind, names |-> names, entryKind |-> entryKind, agent |-> agent]

NoResourceEntries == [n \in ResourceNames |-> "absent"]

AbsentResources == ResSection("absent", {}, NoResourceEntries, NoAgent)

ResMap(entryKind, agent) ==
  ResSection("map", {n \in ResourceNames : entryKind[n] # "absent"}, entryKind,
             IF entryKind["BedrockAgent"] = "map" THEN agent ELSE NoAgent)

EmptyResources == ResMap(NoResourceEntries, NoAgent)

FullResources ==
  ResMap([n \in ResourceNames |-> "map"],
         AgentEntry("map", "str", "absent", FALSE, "absent"))

NonMapResources ==
  { ResSection("null", {}, NoResourceEntries, NoAgent),
    ResSection("num", {}, NoResourceEntries, NoAgent) }
  \cup { ResSection(k, ns, NoResourceEntries, NoAgent) :
           k \in {"str", "list"}, ns \in {{}, {"BedrockAgent"}} }

ResourceEntryKinds ==
  { ek \in [ResourceNames -> {"absent", "null", "map"}] :
      /\ ek["BedrockAgentAlias"] # "null"
      /\ ek["AgentLogGroup"] # "null" }

ResSections ==
  {AbsentResources} \cup NonMapResources
  \cup { ResMap(ek, a) : ek \in ResourceEntryKinds, a \in AgentEntries }

BasicResSections == {AbsentResources, EmptyResources, FullResources}

OutputNames == Range(expected_outputs)

OutSection(kind, names) == [kind |-> kind, names |-> names]

AbsentOutputs == OutSection("absent", {})

EmptyOutputs == OutSection("map", {})

FullOutputs == OutSection("map", OutputNames)

OutSections ==
  { AbsentOutputs, OutSection("null", {}), OutSection("num", {}),
    OutSection("str", {}), OutSection("list", {"AgentId"}) }
  \cup { OutSection("map", ns) : ns \in SUBSET OutputNames }

BasicOutSections == {AbsentOutputs, EmptyOutputs, FullOutputs}

\* A top-level value.  `keys` are the section names that are `in` it and
\* `truthy` is its truth value (`not self.template` is its negation).
Document(kind, truthy, keys, P, R, O) ==
  [kind |-> kind, truthy |-> truthy, keys |-> keys, P |-> P, R |-> R, O |-> O]

\* None: the value before any load, and what an empty file parses to.
NoneDocument == Document("null", FALSE, {}, AbsentParams, AbsentResources, AbsentOutputs)

MapDocument(P, R, O, others) ==
  LET keys == {k \in SectionKeys :
                 \/ k = "Parameters" /\ P.kind # "absent"
                 \/ k = "Resources" /\ R.kind # "absent"
                 \/ k = "Outputs" /\ O.kind # "absent"}
  IN  Document("map", keys # {} \/ others, keys, P, R, O)

\* A top-level scalar or sequence.
NonMapDocuments ==
  { NoneDocument,
    Document("num", FALSE, {}, AbsentParams, AbsentResources, AbsentOutputs),
    Document("num", TRUE, {}, AbsentParams, AbsentResources, AbsentOutputs) }
  \cup { Document(k, FALSE, {}, AbsentParams, AbsentResources, AbsentOutputs) :
           k \in {"str", "list"} }
  \cup { Document(k, TRUE, ks, AbsentParams, AbsentResources, AbsentOutputs) :
           k \in {"str", "list"}, ks \in SUBSET SectionKeys }

BasicDocuments ==
  NonMapDocuments
  \cup { MapDocument(P, R, O, oth) :
           P \in BasicParamSections, R \in BasicResSections,
           O \in BasicOutSections, oth \in BOOLEAN }

\* Every document has at most one section outside the basic ones.
Documents ==
  BasicDocuments
  \cup { MapDocument(P, R, O, FALSE) :
           P \in ParamSections, R \in BasicResSections, O \in BasicOutSections }
  \cup { MapDocument(P, R, O, FALSE) :
           P \in BasicParamSections, R \in ResSections, O \in BasicOutSections }
  \cup { MapDocument(P, R, O, FALSE) :
           P \in BasicParamSections, R \in BasicResSections, O \in OutSections }

\* What open() and yaml.safe_load() find at the template path.
File(status, doc) == [status |-> status, doc |-> doc]

BrokenFiles == {File("missing", NoneDocument), File("unparseable", NoneDocument)}

Files == BrokenFiles \cup {File("ok", d) : d \in Documents}

OpsFiles == BrokenFiles \cup {File("ok", d) : d \in BasicDocuments}

(***************************************************************************)
(* The methods of AgentConfigTester as functions of the stored document.   *)
(* Each yields what the call returns ("true", "false", "none", or "raise"  *)
(* when an exception leaves the method) and the lines it prints.           *)
(***************************************************************************)

Result(ret, out) == [ret |-> ret, out |-> out]

\* load_template: the new stored document, the return value and the output.
\* The assignment to self.template happens only when open() and safe_load()
\* both succeed.
LoadTemplateClearsOnFailure(template, f) ==
  IF f.status = "ok"
  THEN [template |-> f.doc, ret |-> "true", out |-> <<<<"loaded", "template">>>>]
  ELSE [template |-> NoneDocument, ret |-> "false",
        out |-> <<<<"error_loading", f.status>>>>]

LoadTemplate(template, f) ==
  IF f.status = "ok"
  THEN [template |-> f.doc, ret |-> "true", out |-> <<<<"loaded", "template">>>>]
  ELSE [template |-> template, ret |-> "false",
        out |-> <<<<"error_loading", f.status>>>>]

\* validate_template_syntax: every exception of the client, of open() and of
\* the remote validator is caught inside the method.
ValidateTemplateSyntax(outcome) ==
  IF outcome = "valid"
  THEN Result("true", <<<<"syntax_valid", "template">>>>)
  ELSE Result("false", <<<<"validation_error", outcome>>>>)

\* The warnings of one present parameter (type, then allowed values).
ParamWarnings(name, param) ==
  LET expected == required_checks[name]
      typeWarn == IF param.Type # expected.Type
                  THEN <<<<"type_mismatch", name>>>> ELSE <<>>
      allowedWarn ==
        IF ~expected.hasAllowed THEN <<>>
        ELSE IF ~param.hasAllowed THEN <<<<"missing_allowed_values", name>>>>
        ELSE IF param.AllowedValues # expected.AllowedValues
             THEN <<<<"allowed_values_mismatch", name>>>>
        ELSE <<>>
  IN  typeWarn \o allowedWarn

\* The loop of check_parameters over required_checks, from its idx-th item.
RECURSIVE ParamLoop(_, _, _)
ParamLoop(parameters, idx, out) ==
  IF idx > Len(RequiredParams) THEN Result("true", out)
  ELSE LET name == RequiredParams[idx] IN
    IF ~SupportsIn(parameters.kind) THEN Result("raise", out)
    ELSE IF name \notin parameters.names
      THEN ParamLoop(parameters, idx + 1, Append(out, <<"missing_parameter", name>>))
    ELSE IF ~SupportsIndex(parameters.kind) THEN Result("raise", out)
    ELSE IF ~SupportsGet(parameters.entries[name].kind) THEN Result("raise", out)
    ELSE ParamLoop(parameters, idx + 1,
                   Append(out, <<"parameter", name>>)
                     \o ParamWarnings(name, parameters.entries[name]))

\* The guard of the section checks: `not self.template or key not in
\* self.template`, then self.template[key].  "absent" is the early return,
\* "raise" a failing `in` or a failing index, "present" otherwise.
SectionLookup(template, key) ==
  IF ~template.truthy THEN "absent"
  ELSE IF ~SupportsIn(template.kind) THEN "raise"
  ELSE IF key \notin template.keys THEN "absent"
  ELSE IF ~SupportsIndex(template.kind) THEN "raise"
  ELSE "present"

SectionLookupNoTruthTest(template, key) ==
  IF ~SupportsIn(template.kind) THEN "raise"
  ELSE IF key \notin template.keys THEN "absent"
  ELSE IF ~SupportsIndex(template.kind) THEN "raise"
  ELSE "present"

CheckParametersFailsOnMissing(template) ==
  LET look == SectionLookup(template, "Parameters") IN
  IF look = "absent" THEN Result("false", <<<<"no_section", "Parameters">>>>)
  ELSE IF look = "raise" THEN Result("raise", <<>>)
  ELSE LET r == ParamLoop(template.P, 1, <<<<"checking", "Parameters">>>>) IN
       IF r.ret = "true" /\ template.P.names # Range(RequiredParams)
       THEN Result("false", r.out) ELSE r

CheckParametersNoTruthTest(template) ==
  LET look == SectionLookupNoTruthTest(template, "Parameters") IN
  IF look = "absent" THEN Result("false", <<<<"no_section", "Parameters">>>>)
  ELSE IF look = "raise" THEN Result("raise", <<>>)
  ELSE ParamLoop(template.P, 1, <<<<"checking", "Parameters">>>>)

CheckParameters(template) ==
  LET look == SectionLookup(template, "Parameters") IN
  IF look = "absent" THEN Result("false", <<<<"no_section", "Parameters">>>>)
  ELSE IF look = "raise" THEN Result("raise", <<>>)
  ELSE ParamLoop(template.P, 1, <<<<"checking", "Parameters">>>>)

\* The loop of check_resources over expected_resources.
RECURSIVE ResourceLoop(_, _, _)
ResourceLoop(resources, idx, out) ==
  IF idx > Len(expected_resources) THEN Result("true", out)
  ELSE LET name == expected_resources[idx] IN
    IF ~SupportsIn(resources.kind) THEN Result("raise", out)
    ELSE IF name \notin resources.names
      THEN ResourceLoop(resources, idx + 1, Append(out, <<"missing_resource", name>>))
    ELSE IF ~SupportsIndex(resources.kind) THEN Result("raise", out)
    ELSE IF ~SupportsGet(resources.entryKind[name]) THEN Result("raise", out)
    ELSE ResourceLoop(resources, idx + 1, Append(out, <<"resource", name>>))

CheckResources(template) ==
  LET look == SectionLookup(template, "Resources") IN
  IF look = "absent" THEN Result("false", <<<<"no_section", "Resources">>>>)
  ELSE IF look = "raise" THEN Result("raise", <<>>)
  ELSE ResourceLoop(template.R, 1, <<<<"checking", "Resources">>>>)

\* check_bedrock_agent_config from `properties = agent.get('Properties', {})`
\* on, for an agent entry that is a mapping.
AgentReport(agent) ==
  LET head == << <<"checking", "BedrockAgent">>, <<"foundation_model", "reported">> >>
      hasInstr == agent.Instruction # "absent"
      instr == IF hasInstr THEN <<<<"instruction", "length">>>>
               ELSE <<<<"missing", "Instruction">>>>
      ttl == <<<<"idle_ttl", "reported">>>>
      poc == agent.PromptOverrideConfiguration
  IN
  IF agent.Properties # "absent" /\ ~SupportsGet(agent.Properties)
    THEN Result("raise", <<<<"checking", "BedrockAgent">>>>)
  ELSE IF hasInstr /\ ~SupportsLen(agent.Instruction) THEN Result("raise", head)
  ELSE IF poc = "absent"
    THEN Result("true", head \o instr \o ttl \o <<<<"no", "PromptOverrideConfiguration">>>>)
  ELSE LET pre == head \o instr \o ttl \o <<<<"present", "PromptOverrideConfiguration">>>> IN
    IF ~SupportsIn(poc) THEN Result("raise", pre)
    ELSE IF ~agent.hasPromptConfigurations THEN Result("true", pre)
    ELSE IF ~SupportsIndex(poc) THEN Result("raise", pre)
    ELSE IF ~SupportsLen(agent.PromptConfigurations) THEN Result("raise", pre)
    ELSE Result("true", Append(pre, <<"prompt_configurations", "count">>))

CheckBedrockAgentConfigNeedsOverride(template) ==
  LET look == SectionLookup(template, "Resources") IN
  IF look = "absent" THEN Result("false", <<>>)
  ELSE IF look = "raise" THEN Result("raise", <<>>)
  ELSE IF ~SupportsIn(template.R.kind) THEN Result("raise", <<>>)
  ELSE IF "BedrockAgent" \notin template.R.names
    THEN Result("false", <<<<"not_found", "BedrockAgent">>>>)
  ELSE IF ~SupportsIndex(template.R.kind) THEN Result("raise", <<>>)
  ELSE IF ~SupportsGet(template.R.entryKind["BedrockAgent"]) THEN Result("raise", <<>>)
  ELSE LET r == AgentReport(template.R.agent) IN
       IF r.ret = "true" /\ template.R.agent.PromptOverrideConfiguration = "absent"
       THEN Result("false", r.out) ELSE r

CheckBedrockAgentConfig(template) ==
  LET look == SectionLookup(template, "Resources") IN
  IF look = "absent" THEN Result("false", <<>>)
  ELSE IF look = "raise" THEN Result("raise", <<>>)
  ELSE IF ~SupportsIn(template.R.kind) THEN Result("raise", <<>>)
  ELSE IF "BedrockAgent" \notin template.R.names
    THEN Result("false", <<<<"not_found", "BedrockAgent">>>>)
  ELSE IF ~SupportsIndex(template.R.kind) THEN Result("raise", <<>>)
  ELSE IF ~SupportsGet(template.R.entryKind["BedrockAgent"]) THEN Result("raise", <<>>)
  ELSE AgentReport(template.R.agent)

\* check_outputs: the loop only tests `output in outputs`.
OutputLines(outputs) ==
  [k \in 1..Len(expected_outputs) |->
     IF expected_outputs[k] \in outputs.names
     THEN <<"output", expected_outputs[k]>>
     ELSE <<"missing_output", expected_outputs[k]>>]

CheckOutputs(template) ==
  LET look == SectionLookup(template, "Outputs") IN
  IF look = "absent" THEN Result("false", <<<<"no_section", "Outputs">>>>)
  ELSE IF look = "raise" THEN Result("raise", <<>>)
  ELSE IF ~SupportsIn(template.O.kind)
    THEN Result("raise", <<<<"checking", "Outputs">>>>)
  ELSE Result("true", <<<<"checking", "Outputs">>>> \o OutputLines(template.O))

\* generate_summary: .get on the document, then len() of each section the
\* document has.  It has no handler of its own.
GenerateSummary(template) ==
  LET head == <<<<"summary", "header">>>>
      fields == << <<"summary", "Description">>,
                   <<"summary", "AWSTemplateFormatVersion">> >>
      kindOf == [k \in SectionKeys |->
                   IF k = "Parameters" THEN template.P.kind
                   ELSE IF k = "Resources" THEN template.R.kind
                   ELSE template.O.kind]
      present(k) == k \in template.keys
      bad(k) == present(k) /\ ~SupportsLen(kindOf[k])
      line(k) == IF present(k) THEN <<<<"count", k>>>> ELSE <<>>
  IN
  IF ~template.truthy THEN Result("none", head)
  ELSE IF ~SupportsGet(template.kind) THEN Result("raise", head)
  ELSE IF bad("Parameters") THEN Result("raise", head \o fields)
  ELSE IF bad("Resources")
    THEN Result("raise", head \o fields \o line("Parameters"))
  ELSE IF bad("Outputs")
    THEN Result("raise", head \o fields \o line("Parameters") \o line("Resources"))
  ELSE Result("none", head \o fields \o line("Parameters") \o line("Resources")
                        \o line("Outputs"))

(***************************************************************************)
(* State.                                                                  *)
(***************************************************************************)
VARIABLES
  template_file,  \* self.template_file
  template,       \* self.template
  pc,             \* where main() is
  i,              \* index into `checks` of the next check of the loop
  passed,         \* the counter of run_all_checks
  calls,          \* the methods run_all_checks has invoked, in order
  rets,           \* what each finished check returned, or "raise"
  out,            \* the lines printed so far
  reported,       \* the N of "N/5 checks passed", -1 before it is printed
  banner,         \* "ready", "review", or "none" before it is printed
  success,        \* the return value of run_all_checks, "none" before
  lastOp,         \* the method called last on the tester
  lastRet,        \* what that call returned, or "raise"
  lastLoad,       \* what the most recent load_template returned
  everLoaded      \* whether some load_template has returned True

vars == <<template_file, template, pc, i, passed, calls, rets, out, reported,
          banner, success, lastOp, lastRet, lastLoad, everLoaded>>

mainVars == <<pc, i, passed, calls, rets, out, reported, banner, success>>

opsVars == <<lastOp, lastRet, lastLoad, everLoaded>>

checks ==
  <<"load_template", "check_parameters", "check_resources",
    "check_bedrock_agent_config", "check_outputs">>

\* What the remote validation call can come to.
ValidationOutcomes == {"valid", "no_credentials", "network", "unreadable", "rejected"}

\* __init__, then the first lines of main() and of run_all_checks.
Init ==
  /\ template_file = "bedrock-agent-template.yaml"
  /\ template = NoneDocument
  /\ pc = "checks"
  /\ i = 1
  /\ passed = 0
  /\ calls = <<>>
  /\ rets = <<>>
  /\ out = <<<<"starting", "validation">>>>
  /\ reported = -1
  /\ banner = "none"
  /\ success = "none"
  /\ lastOp = "none"
  /\ lastRet = "none"
  /\ lastLoad = "none"
  /\ everLoaded = FALSE

(***************************************************************************)
(* main(): run_all_checks, then validate_template_syntax.                  *)
(***************************************************************************)

\* One iteration of the loop of run_all_checks.
RunCheckStopsOnRaise(r) ==
  /\ passed' = IF r.ret = "true" THEN passed + 1 ELSE passed
  /\ out' = out \o r.out
              \o (IF r.ret = "raise" THEN <<<<"error_in", checks[i]>>>> ELSE <<>>)
  /\ calls' = Append(calls, checks[i])
  /\ rets' = Append(rets, r.ret)
  /\ i' = i + 1
  /\ pc' = IF i = NumChecks \/ r.ret = "raise" THEN "generate_summary" ELSE "checks"
  /\ UNCHANGED <<template_file, reported, banner, success>>
  /\ UNCHANGED opsVars

RunCheckCountsRaise(r) ==
  /\ passed' = IF r.ret # "false" THEN passed + 1 ELSE passed
  /\ out' = out \o r.out
              \o (IF r.ret = "raise" THEN <<<<"error_in", checks[i]>>>> ELSE <<>>)
  /\ calls' = Append(calls, checks[i])
  /\ rets' = Append(rets, r.ret)
  /\ i' = i + 1
  /\ pc' = IF i = NumChecks THEN "generate_summary" ELSE "checks"
  /\ UNCHANGED <<template_file, reported, banner, success>>
  /\ UNCHANGED opsVars

RunCheck(r) ==
  /\ passed' = IF r.ret = "true" THEN passed + 1 ELSE passed
  /\ out' = out \o r.out
              \o (IF r.ret = "raise" THEN <<<<"error_in", checks[i]>>>> ELSE <<>>)
  /\ calls' = Append(calls, checks[i])
  /\ rets' = Append(rets, r.ret)
  /\ i' = i + 1
  /\ pc' = IF i = NumChecks THEN "generate_summary" ELSE "checks"
  /\ UNCHANGED <<template_file, reported, banner, success>>
  /\ UNCHANGED opsVars

RunLoadTemplate ==
  /\ pc = "checks" /\ checks[i] = "load_template"
  /\ \E f \in Files :
       LET r == LoadTemplate(template, f) IN
       /\ template' = r.template
       /\ RunCheck(Result(r.ret, r.out))

RunCheckParameters ==
  /\ pc = "checks" /\ checks[i] = "check_parameters"
  /\ RunCheck(CheckParameters(template))
  /\ UNCHANGED template

RunCheckResources ==
  /\ pc = "checks" /\ checks[i] = "check_resources"
  /\ RunCheck(CheckResources(template))
  /\ UNCHANGED template

RunCheckBedrockAgentConfig ==
  /\ pc = "checks" /\ checks[i] = "check_bedrock_agent_config"
  /\ RunCheck(CheckBedrockAgentConfig(template))
  /\ UNCHANGED template

RunCheckOutputs ==
  /\ pc = "checks" /\ checks[i] = "check_outputs"
  /\ RunCheck(CheckOutputs(template))
  /\ UNCHANGED template

\* self.generate_summary() in run_all_checks: the call is outside the loop's
\* try, and main() calls run_all_checks outside any try, so an exception of
\* generate_summary ends the process.
RunGenerateSummary ==
  /\ pc = "generate_summary"
  /\ LET r == GenerateSummary(template) IN
     /\ out' = out \o r.out
     /\ pc' = IF r.ret = "raise" THEN "crashed" ELSE "report"
  /\ calls' = Append(calls, "generate_summary")
  /\ UNCHANGED <<template_file, template, i, passed, rets, reported, banner, success>>
  /\ UNCHANGED opsVars

\* The count line, the banner and the return of run_all_checks.
Report ==
  /\ pc = "report"
  /\ reported' = passed
  /\ banner' = IF passed = NumChecks THEN "ready" ELSE "review"
  /\ success' = IF passed = NumChecks THEN "true" ELSE "false"
  /\ pc' = "validate"
  /\ UNCHANGED <<template_file, template, i, passed, calls, rets, out>>
  /\ UNCHANGED opsVars

\* The rest of main(): the handler prints the credentials hint only when
\* validate_template_syntax itself raises.
MainValidate ==
  /\ pc = "validate"
  /\ \E outcome \in ValidationOutcomes :
       LET r == ValidateTemplateSyntax(outcome) IN
       out' = Append(out, <<"attempting", "aws_validation">>) \o r.out
                \o (IF r.ret = "raise"
                    THEN << <<"validation_skipped", outcome>>,
                            <<"hint", "credentials">> >>
                    ELSE <<>>)
  /\ pc' = "exit"
  /\ UNCHANGED <<template_file, template, i, passed, calls, rets, reported,
                 banner, success>>
  /\ UNCHANGED opsVars

Next ==
  \/ RunLoadTemplate
  \/ RunCheckParameters
  \/ RunCheckResources
  \/ RunCheckBedrockAgentConfig
  \/ RunCheckOutputs
  \/ RunGenerateSummary
  \/ Report
  \/ MainValidate

Spec == Init /\ [][Next]_vars

(***************************************************************************)
(* One tester whose methods a caller invokes in any order, the file at the *)
(* template path changing between the calls.                               *)
(***************************************************************************)

Called(op, ret) ==
  /\ lastOp' = op
  /\ lastRet' = ret
  /\ UNCHANGED mainVars
  /\ UNCHANGED template_file

CallLoadTemplate ==
  \E f \in OpsFiles :
    LET r == LoadTemplate(template, f) IN
    /\ template' = r.template
    /\ lastLoad' = r.ret
    /\ everLoaded' = (everLoaded \/ r.ret = "true")
    /\ Called("load_template", r.ret)

CallCheckParameters ==
  /\ Called("check_parameters", CheckParameters(template).ret)
  /\ UNCHANGED <<template, lastLoad, everLoaded>>

CallCheckResources ==
  /\ Called("check_resources", CheckResources(template).ret)
  /\ UNCHANGED <<template, lastLoad, everLoaded>>

CallCheckBedrockAgentConfig ==
  /\ Called("check_bedrock_agent_config", CheckBedrockAgentConfig(template).ret)
  /\ UNCHANGED <<template, lastLoad, everLoaded>>

CallCheckOutputs ==
  /\ Called("check_outputs", CheckOutputs(template).ret)
  /\ UNCHANGED <<template, lastLoad, everLoaded>>

CallGenerateSummary ==
  /\ Called("generate_summary", GenerateSummary(template).ret)
  /\ UNCHANGED <<template, lastLoad, everLoaded>>

CallValidateTemplateSyntax ==
  /\ \E outcome \in ValidationOutcomes :
       Called("validate_template_syntax", ValidateTemplateSyntax(outcome).ret)
  /\ UNCHANGED <<template, lastLoad, everLoaded>>

NextOps ==
  \/ CallLoadTemplate
  \/ CallCheckParameters
  \/ CallCheckResources
  \/ CallCheckBedrockAgentConfig
  \/ CallCheckOutputs
  \/ CallGenerateSummary
  \/ CallValidateTemplateSyntax

SpecOps == Init /\ [][NextOps]_vars

(***************************************************************************)
(* Properties.                                                             *)
(***************************************************************************)

CallOrder == checks \o <<"generate_summary">>

Passes == Cardinality({k \in 1..Len(rets) : rets[k] = "true"})

\* run_all_checks is over: it returned or an exception left it.
RunAllOver == pc \in {"validate", "exit", "crashed"}

\* The load of this run stored a document.
Loaded == Len(rets) >= 1 /\ rets[1] = "true"

Printed(tag, arg) == <<tag, arg>> \in Range(out)

\* C1: run_all_checks invokes load_template, check_parameters,
\* check_resources, check_bedrock_agent_config and check_outputs once each in
\* that order whatever each of them returns or raises, and generate_summary
\* only after all five have finished.
C1_FixedOrder ==
  /\ Len(calls) <= Len(CallOrder)
  /\ \A k \in 1..Len(calls) : calls[k] = CallOrder[k]
  /\ pc = "checks" => Len(calls) = Len(rets) /\ Len(rets) = i - 1 /\ i <= NumChecks
  /\ pc # "checks" => Len(rets) = NumChecks
  /\ "generate_summary" \in Range(calls) => Len(rets) = NumChecks
  /\ RunAllOver => calls = CallOrder

\* A check raised, a check returned False, and every later step still ran.
C1_Witness ==
  /\ pc = "exit"
  /\ calls = CallOrder
  /\ rets[2] = "raise"
  /\ rets[4] = "false"

C3_NoExceptionEscapes == pc # "crashed"

\* C4 as claimed: whenever no load has succeeded or the most recent load
\* returned False, each of the four checks returns False.
C4_UnloadedOrLastLoadFailed ==
  (/\ lastOp \in {"check_parameters", "check_resources",
                  "check_bedrock_agent_config", "check_outputs"}
   /\ (~everLoaded \/ lastLoad = "false"))
  => lastRet = "false"

\* C4 amended: whenever no load_template call on the tester has returned True
\* so far, each of the four checks returns False and does not raise.
C4_NeverLoaded ==
  (/\ lastOp \in {"check_parameters", "check_resources",
                  "check_bedrock_agent_config", "check_outputs"}
   /\ ~everLoaded)
  => lastRet = "false"

\* A check called after a failed load on a tester that never loaded.
C4_Witness ==
  /\ ~everLoaded
  /\ lastLoad = "false"
  /\ lastOp = "check_parameters"
  /\ lastRet = "false"

\* C5: when the validation call fails, the credentials hint is printed and
\* the reported count is left alone.
C5_HintOnFailure ==
  (pc = "exit" /\ \E m \in Range(out) : m[1] = "validation_error")
  => Printed("hint", "credentials")

IndexOf(key) ==
  IF key = "Parameters" THEN 2 ELSE IF key = "Resources" THEN 3 ELSE 5

\* Every lookup the check of this section performs is valid: the section is
\* a container and, for Parameters and Resources, every expected name found
\* in it can be fetched from it as a mapping.
SectionWellFormed(key) ==
  IF key = "Parameters"
  THEN /\ SupportsIn(template.P.kind)
       /\ \A n \in template.P.names :
            template.P.kind = "map" /\ template.P.entries[n].kind = "map"
  ELSE IF key = "Resources"
  THEN /\ SupportsIn(template.R.kind)
       /\ \A n \in template.R.names :
            template.R.kind = "map" /\ template.R.entryKind[n] = "map"
  ELSE SupportsIn(template.O.kind)

\* C6 as claimed: for every loaded document each section check returns True
\* iff its section key is in the document.
C6_SuccessIffKeyPresent ==
  \A key \in SectionKeys :
    (Loaded /\ Len(rets) >= IndexOf(key))
    => (rets[IndexOf(key)] = "true" <=> key \in template.keys)

\* C6 amended: for every loaded document a section check returns False iff
\* the document is empty (None, zero, empty container) or is a container
\* without the section key.  For a mapping that has the key it returns True,
\* whichever expected names are missing or mismatched inside the section,
\* unless a lookup in the section is invalid (the section is null or a
\* number, an expected name is found in a section that is a string or a
\* sequence, or an expected parameter or resource found in the section is not
\* a mapping), and then it raises, as it does for a document that is a
\* non-zero number or a string or sequence containing the key.  An empty
\* Parameters mapping gives True with all three parameters reported missing.
C6_SectionChecks ==
  \A key \in SectionKeys :
    (Loaded /\ Len(rets) >= IndexOf(key))
    => /\ rets[IndexOf(key)] = "false"
            <=> (\/ ~template.truthy
                 \/ SupportsIn(template.kind) /\ key \notin template.keys)
       /\ rets[IndexOf(key)] = "true"
            <=> (/\ template.kind = "map"
                 /\ key \in template.keys
                 /\ SectionWellFormed(key))
       /\ (key = "Parameters" /\ template.kind = "map" /\ template.P = EmptyParams)
            => /\ rets[2] = "true"
               /\ \A n \in ParamNames : Printed("missing_parameter", n)

\* Sections with missing and mismatched entries whose checks returned True.
C6_Witness ==
  /\ Loaded /\ Len(rets) = NumChecks
  /\ template.P.kind = "map" /\ template.P.names = {"Environment"}
  /\ Printed("type_mismatch", "Environment")
  /\ template.R = EmptyResources
  /\ template.O = EmptyOutputs
  /\ rets[2] = "true" /\ rets[3] = "true" /\ rets[5] = "true"

\* The lookups of check_bedrock_agent_config inside the agent entry are valid.
AgentWellFormed(a) ==
  /\ a.Properties \in {"absent", "map"}
  /\ a.Instruction \in {"absent", "str", "list", "map"}
  /\ \/ a.PromptOverrideConfiguration = "absent"
     \/ /\ a.PromptOverrideConfiguration \in {"str", "list", "map"}
        /\ a.hasPromptConfigurations
             => /\ a.PromptOverrideConfiguration = "map"
                /\ a.PromptConfigurations \in {"str", "list", "map"}

HasAgentEntry == "Resources" \in template.keys /\ "BedrockAgent" \in template.R.names

\* C7 as claimed: for every loaded document check_bedrock_agent_config
\* returns False without Resources or without the BedrockAgent entry, and
\* True whenever the entry exists, whatever its property bag contains.
C7_SuccessWheneverEntryExists ==
  (Loaded /\ Len(rets) >= 4)
  => /\ ~HasAgentEntry => rets[4] = "false"
     /\ HasAgentEntry => rets[4] = "true"

\* C7 amended: for every loaded document check_bedrock_agent_config returns
\* False iff the document is empty, or is a container without Resources, or
\* is a mapping whose Resources is a container without BedrockAgent.  When
\* the entry exists it returns True if the entry is a mapping whose
\* Properties is absent or a mapping, whose Instruction is absent or sized,
\* and whose override block is absent or a container whose
\* PromptConfigurations, if any, is sized -- so with no properties, no
\* instruction, no override block, or an override block without
\* PromptConfigurations -- and otherwise it raises, never returns False.
C7_AgentConfig ==
  (Loaded /\ Len(rets) >= 4)
  => /\ rets[4] = "false"
          <=> (\/ ~template.truthy
               \/ SupportsIn(template.kind) /\ "Resources" \notin template.keys
               \/ /\ template.kind = "map"
                  /\ "Resources" \in template.keys
                  /\ SupportsIn(template.R.kind)
                  /\ "BedrockAgent" \notin template.R.names)
     /\ rets[4] = "true"
          <=> (/\ template.kind = "map"
               /\ HasAgentEntry
               /\ template.R.kind = "map"
               /\ template.R.entryKind["BedrockAgent"] = "map"
               /\ AgentWellFormed(template.R.agent))

\* An agent entry without Properties whose check returned True with the
\* override block reported absent.
C7_Witness ==
  /\ Loaded /\ Len(rets) >= 4
  /\ HasAgentEntry
  /\ template.R.entryKind["BedrockAgent"] = "map"
  /\ template.R.agent = NoAgent
  /\ rets[4] = "true"
  /\ Printed("no", "PromptOverrideConfiguration")
  /\ Printed("missing", "Instruction")

\* C8: for a present Environment parameter an allowed-values warning is
\* printed iff the set of values it declares differs from {dev, test, prod}
\* or it declares none; AgentName and FoundationModel never get one.
C8_AllowedValuesAsSet ==
  (/\ Loaded /\ template.kind = "map" /\ Len(rets) >= 2 /\ rets[2] = "true")
  => /\ "Environment" \in template.P.names
          => ((\/ Printed("missing_allowed_values", "Environment")
               \/ Printed("allowed_values_mismatch", "Environment"))
              <=> (\/ ~template.P.entries["Environment"].hasAllowed
                   \/ Range(template.P.entries["Environment"].AllowedValues)
                        # {"dev", "test", "prod"}))
     /\ \A n \in {"AgentName", "FoundationModel"} :
          /\ ~Printed("missing_allowed_values", n)
          /\ ~Printed("allowed_values_mismatch", n)

\* C9: a parseable document with every expected section, resource and output
\* ends in 5/5 and True; one with none of the sections ends in 1/5 and False.
C9_EndToEnd ==
  (RunAllOver /\ Loaded)
  => /\ (/\ template.keys = SectionKeys
         /\ template.R.names = ResourceNames
         /\ template.O.names = OutputNames)
          => reported = NumChecks /\ success = "true"
     /\ template.keys = {}
          => reported = 1 /\ success = "false" /\ rets[1] = "true"

\* C10: self.template and self.template_file are written only by a
\* load_template call that returns True; the four checks, generate_summary,
\* validate_template_syntax and a load that returns False leave both as they
\* were, so a failed load after a successful one keeps the earlier document.
C10_OnlySuccessfulLoadWrites ==
  [][ \/ lastOp' = "load_template" /\ lastRet' = "true"
      \/ template' = template /\ template_file' = template_file ]_vars

\* A failed load after a successful one, the earlier document still stored.
C10_Witness ==
  /\ lastOp = "load_template"
  /\ lastRet = "false"
  /\ everLoaded
  /\ template.kind = "map"
  /\ template.keys = SectionKeys

====
